---- MODULE Spec2Model ----
(***************************************************************************)
(* Model of src/iot_driver_copilot/rtsp_camera/driver.py: the CameraStream *)
(* object shared by the Flask request threads (capture, gen_mjpeg_stream)  *)
(* and the background threads running CameraStream._update.                *)
(*                                                                         *)
(* Every access to an attribute of the shared object that is not made      *)
(* under self.lock is a step of its own: Python threads can be switched    *)
(* between any two of them.  The bodies of "with self.lock" are steps that *)
(* hold the lock variable, so a thread that wants the lock waits.          *)
(***************************************************************************)
EXTENDS Integers, Sequences, FiniteSets, TLC

\* ---------------------------------------------------------------- bounds
\* Number of HTTP request threads served concurrently.
NumConsumers == 2
\* Total number of requests (capture, stream, direct calls) ever begun.
MaxRequests == 2
\* Number of cv2.VideoCapture handles ever created (opens and reopens).
MaxHandles == 3
\* Number of frames the upstream delivers.
MaxFrames == 1

Cons == 1..NumConsumers
None == 0

VARIABLES
    subscribers,      \* self.subscribers
    running,          \* self.running
    cap,              \* self.cap: None or the index of a handle
    frame,            \* self.frame: None or the handle the frame was read from
    last_frame_time,  \* self.last_frame_time: 0 or the index of the write
    lock,             \* self.lock: 0 (free) or the thread holding it
    handles,          \* every cv2.VideoCapture created: [ok, released]
    loops,            \* every thread started on _update: its position and locals
    con,              \* the request threads: position and locals
    reqs              \* requests begun so far

vars == <<subscribers, running, cap, frame, last_frame_time, lock, handles,
          loops, con, reqs>>

\* Lock owner identities: a request thread c is c, loop thread l is NumConsumers + l.
LoopId(l) == NumConsumers + l

Loops == DOMAIN loops

LoopAlive(l) == loops[l].pc \notin {"done", "crashed"}

AliveLoops == {l \in Loops : LoopAlive(l)}

\* gap is history: the stream's last poll found no frame to send.
IdleCon == [pc |-> "idle", kind |-> "none", tmp |-> 0, jpeg |-> None,
            adds |-> 0, removes |-> 0, res |-> "none", exit |-> "none",
            gap |-> FALSE]

Init ==
    /\ subscribers = 0
    /\ running = FALSE
    /\ cap = None
    /\ frame = None
    /\ last_frame_time = 0
    /\ lock = 0
    /\ handles = <<>>
    /\ loops = <<>>
    /\ con = [c \in Cons |-> IdleCon]
    /\ reqs = 0

\* History: pos of a loop thread is TRUE while subscribers has been > 0 in every
\* state since the thread was started.
NotePos(ls, n) == [l \in DOMAIN ls |-> [ls[l] EXCEPT !.pos = @ /\ n > 0]]

NewLoop == [pc |-> "open", fr |-> None, streak |-> FALSE, pos |-> subscribers > 0]

SetPc(c, p) == con' = [con EXCEPT ![c].pc = p]

SetLoopPc(l, p) == loops' = [loops EXCEPT ![l].pc = p]


Max(a, b) == IF a >= b THEN a ELSE b

Usable(h) == handles[h].ok /\ ~handles[h].released

Release(h) == [handles EXCEPT ![h].released = TRUE]

\* ------------------------------------------------ CameraStream accessors
\* get_frame: a copy of self.frame taken under the lock, or None.
GetFrame == IF frame # None THEN frame ELSE None

\* get_jpeg: None when there is no frame or cv2.imencode reports failure,
\* otherwise the encoded bytes (identified by the frame they encode).
GetJpeg(encOk) ==
    LET f == GetFrame
    IN  IF f = None THEN None ELSE IF ~encOk THEN None ELSE f

\* ------------------------------------------------ add_subscriber / start
\* Where a request thread continues once add_subscriber has returned.
AfterAdd(c) == IF con[c].kind = "capture" THEN "grace" ELSE "poll"

\* self.subscribers += 1: the read of the attribute.
AddRead(c) ==
    /\ con[c].pc = "add_read"
    /\ con' = [con EXCEPT ![c].pc = "add_write", ![c].tmp = subscribers]
    /\ UNCHANGED <<subscribers, running, cap, frame, last_frame_time, lock,
                   handles, loops, reqs>>

\* self.subscribers += 1: the write of the attribute.
AddWrite(c) ==
    /\ con[c].pc = "add_write"
    /\ subscribers' = con[c].tmp + 1
    /\ loops' = NotePos(loops, subscribers')
    /\ con' = [con EXCEPT ![c].pc = "add_test", ![c].tmp = 0, ![c].adds = @ + 1]
    /\ UNCHANGED <<running, cap, frame, last_frame_time, lock, handles, reqs>>

\* if self.subscribers == 1: self.start()
AddTest(c) ==
    /\ con[c].pc = "add_test"
    /\ SetPc(c, IF subscribers = 1 THEN "start" ELSE AfterAdd(c))
    /\ UNCHANGED <<subscribers, running, cap, frame, last_frame_time, lock,
                   handles, loops, reqs>>

\* start(): under the lock, start a thread on _update unless running is set.
Start(c) ==
    /\ con[c].pc = "start"
    /\ lock = 0
    /\ IF ~running
       THEN /\ running' = TRUE
            /\ loops' = Append(loops, NewLoop)
       ELSE UNCHANGED <<running, loops>>
    /\ SetPc(c, AfterAdd(c))
    /\ UNCHANGED <<subscribers, cap, frame, last_frame_time, lock, handles,
                   reqs>>

\* ------------------------------------------------ remove_subscriber / stop
\* A request thread whose remove_subscriber has returned (or raised).
Finish(c, result) == [con[c] EXCEPT !.pc = "idle", !.tmp = 0, !.res = result]

AfterRemove(c) ==
    IF con[c].kind = "capture"
    THEN [con[c] EXCEPT !.pc = "respond"]
    ELSE Finish(c, "closed")

\* The value remove_subscriber stores: max(0, self.subscribers - 1).
Decremented(n) == Max(0, n - 1)

\* self.subscribers = max(0, self.subscribers - 1): the read.
RmRead(c) ==
    /\ con[c].pc = "rm_read"
    /\ con' = [con EXCEPT ![c].pc = "rm_write", ![c].tmp = subscribers]
    /\ UNCHANGED <<subscribers, running, cap, frame, last_frame_time, lock,
                   handles, loops, reqs>>

\* self.subscribers = max(0, self.subscribers - 1): the write.
RmWrite(c) ==
    /\ con[c].pc = "rm_write"
    /\ subscribers' = Decremented(con[c].tmp)
    /\ loops' = NotePos(loops, subscribers')
    /\ con' = [con EXCEPT ![c].pc = "rm_test", ![c].tmp = 0, ![c].removes = @ + 1]
    /\ UNCHANGED <<running, cap, frame, last_frame_time, lock, handles, reqs>>

\* if self.subscribers == 0: self.stop()
RmTest(c) ==
    /\ con[c].pc = "rm_test"
    /\ con' = [con EXCEPT ![c] = IF subscribers = 0
                                 THEN [con[c] EXCEPT !.pc = "stop_acq"]
                                 ELSE AfterRemove(c)]
    /\ UNCHANGED <<subscribers, running, cap, frame, last_frame_time, lock,
                   handles, loops, reqs>>

\* stop(): with self.lock: self.running = False
StopAcquire(c) ==
    /\ con[c].pc = "stop_acq"
    /\ lock = 0
    /\ lock' = c
    /\ running' = FALSE
    /\ SetPc(c, "stop_chk")
    /\ UNCHANGED <<subscribers, cap, frame, last_frame_time, handles, loops,
                   reqs>>

\* stop(): if self.cap is not None; leaving the with block releases the lock.
StopCheck(c) ==
    /\ con[c].pc = "stop_chk"
    /\ IF cap # None
       THEN /\ SetPc(c, "stop_rel")
            /\ UNCHANGED lock
       ELSE /\ con' = [con EXCEPT ![c] = AfterRemove(c)]
            /\ lock' = 0
    /\ UNCHANGED <<subscribers, running, cap, frame, last_frame_time, handles,
                   loops, reqs>>

\* stop(): self.cap.release() on the handle self.cap names now.
StopRelease(c) ==
    /\ con[c].pc = "stop_rel"
    /\ cap # None
    /\ handles' = Release(cap)
    /\ SetPc(c, "stop_clr")
    /\ UNCHANGED <<subscribers, running, cap, frame, last_frame_time, lock,
                   loops, reqs>>

\* stop(): self.cap.release() when a loop thread has set self.cap to None
\* since the test: AttributeError leaves the with block and the caller.
StopRaise(c) ==
    /\ con[c].pc = "stop_rel"
    /\ cap = None
    /\ lock' = 0
    /\ con' = [con EXCEPT ![c] = Finish(c, "error")]
    /\ UNCHANGED <<subscribers, running, cap, frame, last_frame_time, handles,
                   loops, reqs>>

\* StopClear as it would be if stop() also dropped the buffered frame.
StopClearDropsFrame(c) ==
    /\ con[c].pc = "stop_clr"
    /\ cap' = None
    /\ frame' = None
    /\ lock' = 0
    /\ con' = [con EXCEPT ![c] = AfterRemove(c)]
    /\ UNCHANGED <<subscribers, running, last_frame_time, handles, loops, reqs>>

\* stop(): self.cap = None, and the with block ends.
StopClear(c) ==
    /\ con[c].pc = "stop_clr"
    /\ cap' = None
    /\ lock' = 0
    /\ con' = [con EXCEPT ![c] = AfterRemove(c)]
    /\ UNCHANGED <<subscribers, running, frame, last_frame_time, handles,
                   loops, reqs>>

\* ------------------------------------------------ capture (POST /capture)
NewRequest(k, p) == [IdleCon EXCEPT !.pc = p, !.kind = k]

\* A request thread enters capture(): camera.add_subscriber() is next.
BeginCapture(c) ==
    /\ con[c].pc = "idle"
    /\ reqs < MaxRequests
    /\ reqs' = reqs + 1
    /\ con' = [con EXCEPT ![c] = NewRequest("capture", "add_read")]
    /\ UNCHANGED <<subscribers, running, cap, frame, last_frame_time, lock,
                   handles, loops>>

\* time.sleep(0.1) returns.
GraceElapsed(c) ==
    /\ con[c].pc = "grace"
    /\ SetPc(c, "get_jpeg")
    /\ UNCHANGED <<subscribers, running, cap, frame, last_frame_time, lock,
                   handles, loops, reqs>>

\* jpeg = camera.get_jpeg(); camera.remove_subscriber() is next.
CaptureGetJpeg(c) ==
    /\ con[c].pc = "get_jpeg"
    /\ lock = 0
    /\ \E encOk \in BOOLEAN :
          con' = [con EXCEPT ![c].pc = "rm_read", ![c].jpeg = GetJpeg(encOk)]
    /\ UNCHANGED <<subscribers, running, cap, frame, last_frame_time, lock,
                   handles, loops, reqs>>

\* abort(503) when jpeg is None, send_file otherwise.
CaptureRespond(c) ==
    /\ con[c].pc = "respond"
    /\ con' = [con EXCEPT ![c] = Finish(c, IF con[c].jpeg = None THEN "503" ELSE "200")]
    /\ UNCHANGED <<subscribers, running, cap, frame, last_frame_time, lock,
                   handles, loops, reqs>>

\* ------------------------------------------------ stream (POST /stream)
\* stream() wraps the generator in a Response; its body has not started.
BeginStream(c) ==
    /\ con[c].pc = "idle"
    /\ reqs < MaxRequests
    /\ reqs' = reqs + 1
    /\ con' = [con EXCEPT ![c] = NewRequest("stream", "gen_new")]
    /\ UNCHANGED <<subscribers, running, cap, frame, last_frame_time, lock,
                   handles, loops>>

\* The first next() on the generator: camera.add_subscriber() is next.
StreamFirstNext(c) ==
    /\ con[c].pc = "gen_new"
    /\ SetPc(c, "add_read")
    /\ UNCHANGED <<subscribers, running, cap, frame, last_frame_time, lock,
                   handles, loops, reqs>>

\* The generator is closed before its body ever ran: nothing of it executes.
StreamCloseUnstarted(c) ==
    /\ con[c].pc = "gen_new"
    /\ con' = [con EXCEPT ![c] = [Finish(c, "closed") EXCEPT !.exit = "unstarted"]]
    /\ UNCHANGED <<subscribers, running, cap, frame, last_frame_time, lock,
                   handles, loops, reqs>>

\* StreamPoll as it would be if a missing frame ended the generator.
StreamPollEndsOnGap(c) ==
    /\ con[c].pc = "poll"
    /\ lock = 0
    /\ \E encOk \in BOOLEAN :
          LET j == GetJpeg(encOk)
          IN  con' = [con EXCEPT ![c].pc = IF j = None THEN "rm_read" ELSE "yield",
                                 ![c].jpeg = j,
                                 ![c].gap = (j = None)]
    /\ UNCHANGED <<subscribers, running, cap, frame, last_frame_time, lock,
                   handles, loops, reqs>>

\* frame = camera.get_jpeg(): None sleeps 0.1 s and polls again, bytes are yielded.
StreamPoll(c) ==
    /\ con[c].pc = "poll"
    /\ lock = 0
    /\ \E encOk \in BOOLEAN :
          LET j == GetJpeg(encOk)
          IN  con' = [con EXCEPT ![c].pc = IF j = None THEN "poll" ELSE "yield",
                                 ![c].jpeg = j,
                                 ![c].gap = (j = None)]
    /\ UNCHANGED <<subscribers, running, cap, frame, last_frame_time, lock,
                   handles, loops, reqs>>

\* The consumer asks for the next part: the throttle sleep, then the next poll.
StreamNext(c) ==
    /\ con[c].pc = "yield"
    /\ con' = [con EXCEPT ![c].pc = "poll", ![c].jpeg = None]
    /\ UNCHANGED <<subscribers, running, cap, frame, last_frame_time, lock,
                   handles, loops, reqs>>

\* The finally clause: camera.remove_subscriber() is next.
EnterFinally(c, how) == [con[c] EXCEPT !.pc = "rm_read", !.exit = how, !.jpeg = None]

\* StreamClose as it would be without the try/finally around the loop.
StreamCloseSkipsFinally(c) ==
    /\ con[c].pc = "yield"
    /\ con' = [con EXCEPT ![c] = [Finish(c, "closed") EXCEPT !.exit = "close",
                                                             !.jpeg = None]]
    /\ UNCHANGED <<subscribers, running, cap, frame, last_frame_time, lock,
                   handles, loops, reqs>>

\* The generator is closed at the yield (client gone): GeneratorExit.
StreamClose(c) ==
    /\ con[c].pc = "yield"
    /\ con' = [con EXCEPT ![c] = EnterFinally(c, "close")]
    /\ UNCHANGED <<subscribers, running, cap, frame, last_frame_time, lock,
                   handles, loops, reqs>>

\* An exception is raised at the yield inside the try block.
StreamThrow(c) ==
    /\ con[c].pc = "yield"
    /\ con' = [con EXCEPT ![c] = EnterFinally(c, "error")]
    /\ UNCHANGED <<subscribers, running, cap, frame, last_frame_time, lock,
                   handles, loops, reqs>>

\* A caller of CameraStream.remove_subscriber that holds no subscription
\* (the double unsubscribe the floor at 0 is there for).
BeginExtraRemove(c) ==
    /\ con[c].pc = "idle"
    /\ reqs < MaxRequests
    /\ reqs' = reqs + 1
    /\ con' = [con EXCEPT ![c] = NewRequest("unsub", "rm_read")]
    /\ UNCHANGED <<subscribers, running, cap, frame, last_frame_time, lock,
                   handles, loops>>

\* ------------------------------------------------ _update (the capture loop)
\* Successful reads whose frame is not stored yet.
PendingFrames == Cardinality({l \in Loops : loops[l].pc \in {"acquire", "store"}})

\* The upstream may still deliver a frame.
CanDeliver == last_frame_time + PendingFrames < MaxFrames

\* cv2.VideoCapture(url): a new handle, opened or not, stored in self.cap.
OpenHandle(ok) ==
    /\ Len(handles) < MaxHandles
    /\ handles' = Append(handles, [ok |-> ok, released |-> FALSE])
    /\ cap' = Len(handles) + 1

\* self.cap = cv2.VideoCapture(self.rtsp_url), first statement of _update.
LoopOpen(l) ==
    /\ loops[l].pc = "open"
    /\ \E ok \in BOOLEAN : OpenHandle(ok)
    /\ SetLoopPc(l, "chk_open")
    /\ UNCHANGED <<subscribers, running, frame, last_frame_time, lock, con, reqs>>

\* if not self.cap.isOpened()
LoopCheckOpen(l) ==
    /\ loops[l].pc = "chk_open"
    /\ cap # None
    /\ SetLoopPc(l, IF Usable(cap) THEN "while" ELSE "of_release")
    /\ UNCHANGED <<subscribers, running, cap, frame, last_frame_time, lock,
                   handles, con, reqs>>

\* Open failed: self.cap.release()
LoopOpenFailRelease(l) ==
    /\ loops[l].pc = "of_release"
    /\ cap # None
    /\ handles' = Release(cap)
    /\ SetLoopPc(l, "of_clear")
    /\ UNCHANGED <<subscribers, running, cap, frame, last_frame_time, lock,
                   con, reqs>>

\* Open failed: self.cap = None
LoopOpenFailClear(l) ==
    /\ loops[l].pc = "of_clear"
    /\ cap' = None
    /\ SetLoopPc(l, "of_running")
    /\ UNCHANGED <<subscribers, running, frame, last_frame_time, lock, handles,
                   con, reqs>>

\* Open failed: self.running = False; return
LoopOpenFailReturn(l) ==
    /\ loops[l].pc = "of_running"
    /\ running' = FALSE
    /\ SetLoopPc(l, "done")
    /\ UNCHANGED <<subscribers, cap, frame, last_frame_time, lock, handles,
                   con, reqs>>

\* while self.running
LoopWhile(l) ==
    /\ loops[l].pc = "while"
    /\ SetLoopPc(l, IF running THEN "read" ELSE "exit_chk")
    /\ UNCHANGED <<subscribers, running, cap, frame, last_frame_time, lock,
                   handles, con, reqs>>

\* ret, frame = self.cap.read(): a frame of the handle self.cap names.
LoopReadOk(l) ==
    /\ loops[l].pc = "read"
    /\ cap # None
    /\ Usable(cap)
    /\ CanDeliver
    /\ loops' = [loops EXCEPT ![l].pc = "acquire", ![l].fr = cap]
    /\ UNCHANGED <<subscribers, running, cap, frame, last_frame_time, lock,
                   handles, con, reqs>>

\* ret, frame = self.cap.read() with ret False: the upstream failed, or the
\* handle was never opened or has been released.
LoopReadFail(l) ==
    /\ loops[l].pc = "read"
    /\ cap # None
    /\ loops' = [loops EXCEPT ![l].pc = "rel", ![l].streak = TRUE]
    /\ UNCHANGED <<subscribers, running, cap, frame, last_frame_time, lock,
                   handles, con, reqs>>

\* Reconnect: self.cap.release()
LoopRelease(l) ==
    /\ loops[l].pc = "rel"
    /\ cap # None
    /\ handles' = Release(cap)
    /\ SetLoopPc(l, "backoff")
    /\ UNCHANGED <<subscribers, running, cap, frame, last_frame_time, lock,
                   con, reqs>>

\* Reconnect: time.sleep(1) returns; self.cap = cv2.VideoCapture(url); continue
LoopReopen(l) ==
    /\ loops[l].pc = "backoff"
    /\ \E ok \in BOOLEAN : OpenHandle(ok)
    /\ SetLoopPc(l, "while")
    /\ UNCHANGED <<subscribers, running, frame, last_frame_time, lock, con, reqs>>

\* with self.lock (the loop's critical section is entered)
LoopAcquire(l) ==
    /\ loops[l].pc = "acquire"
    /\ lock = 0
    /\ lock' = LoopId(l)
    /\ SetLoopPc(l, "store")
    /\ UNCHANGED <<subscribers, running, cap, frame, last_frame_time, handles,
                   con, reqs>>

\* LoopStore as it would be if the lock were still held during the pacing sleep.
LoopStoreKeepsLock(l) ==
    /\ loops[l].pc = "store"
    /\ frame' = loops[l].fr
    /\ last_frame_time' = last_frame_time + 1
    /\ loops' = [loops EXCEPT ![l].pc = "pace", ![l].fr = None, ![l].streak = FALSE]
    /\ UNCHANGED <<subscribers, running, cap, lock, handles, con, reqs>>

\* self.frame = frame; self.last_frame_time = time.time(); the lock is released.
LoopStore(l) ==
    /\ loops[l].pc = "store"
    /\ frame' = loops[l].fr
    /\ last_frame_time' = last_frame_time + 1
    /\ lock' = 0
    /\ loops' = [loops EXCEPT ![l].pc = "pace", ![l].fr = None, ![l].streak = FALSE]
    /\ UNCHANGED <<subscribers, running, cap, handles, con, reqs>>

\* time.sleep(1.0 / self.fps) returns.
LoopPace(l) ==
    /\ loops[l].pc = "pace"
    /\ SetLoopPc(l, "while")
    /\ UNCHANGED <<subscribers, running, cap, frame, last_frame_time, lock,
                   handles, con, reqs>>

\* After the loop: if self.cap is not None
LoopExitCheck(l) ==
    /\ loops[l].pc = "exit_chk"
    /\ SetLoopPc(l, IF cap # None THEN "exit_rel" ELSE "done")
    /\ UNCHANGED <<subscribers, running, cap, frame, last_frame_time, lock,
                   handles, con, reqs>>

\* After the loop: self.cap.release()
LoopExitRelease(l) ==
    /\ loops[l].pc = "exit_rel"
    /\ cap # None
    /\ handles' = Release(cap)
    /\ SetLoopPc(l, "exit_clr")
    /\ UNCHANGED <<subscribers, running, cap, frame, last_frame_time, lock,
                   con, reqs>>

\* LoopExitClear as it would be if leaving the loop also cleared the buffer.
LoopExitClearDropsFrame(l) ==
    /\ loops[l].pc = "exit_clr"
    /\ cap' = None
    /\ frame' = None
    /\ last_frame_time' = 0
    /\ SetLoopPc(l, "done")
    /\ UNCHANGED <<subscribers, running, lock, handles, con, reqs>>

\* After the loop: self.cap = None, and _update returns.
LoopExitClear(l) ==
    /\ loops[l].pc = "exit_clr"
    /\ cap' = None
    /\ SetLoopPc(l, "done")
    /\ UNCHANGED <<subscribers, running, frame, last_frame_time, lock, handles,
                   con, reqs>>

\* The statements that call a method of self.cap.
UsesCap == {"chk_open", "of_release", "read", "rel", "exit_rel"}

\* self.cap is None where the thread calls a method of it: AttributeError
\* ends the thread.
LoopCrash(l) ==
    /\ loops[l].pc \in UsesCap
    /\ cap = None
    /\ SetLoopPc(l, "crashed")
    /\ UNCHANGED <<subscribers, running, cap, frame, last_frame_time, lock,
                   handles, con, reqs>>

\* ------------------------------------------------ the program
ConsumerStep(c) ==
    \/ BeginCapture(c) \/ GraceElapsed(c) \/ CaptureGetJpeg(c) \/ CaptureRespond(c)
    \/ BeginStream(c) \/ StreamFirstNext(c) \/ StreamCloseUnstarted(c)
    \/ StreamPoll(c) \/ StreamNext(c) \/ StreamClose(c) \/ StreamThrow(c)
    \/ AddRead(c) \/ AddWrite(c) \/ AddTest(c) \/ Start(c)
    \/ RmRead(c) \/ RmWrite(c) \/ RmTest(c)
    \/ StopAcquire(c) \/ StopCheck(c) \/ StopRelease(c) \/ StopRaise(c) \/ StopClear(c)

LoopStep(l) ==
    \/ LoopOpen(l) \/ LoopCheckOpen(l)
    \/ LoopOpenFailRelease(l) \/ LoopOpenFailClear(l) \/ LoopOpenFailReturn(l)
    \/ LoopWhile(l) \/ LoopReadOk(l) \/ LoopReadFail(l)
    \/ LoopRelease(l) \/ LoopReopen(l)
    \/ LoopAcquire(l) \/ LoopStore(l) \/ LoopPace(l)
    \/ LoopExitCheck(l) \/ LoopExitRelease(l) \/ LoopExitClear(l)
    \/ LoopCrash(l)

Next ==
    \/ \E c \in Cons : ConsumerStep(c)
    \/ \E l \in Loops : LoopStep(l)

\* The server as deployed: capture and stream requests only.
Spec == Init /\ [][Next]_vars

\* The CameraStream object with callers that also call remove_subscriber
\* without holding a subscription.
NextApi == Next \/ \E c \in Cons : BeginExtraRemove(c)

SpecApi == Init /\ [][NextApi]_vars

\* ------------------------------------------------ vocabulary of the claims
\* Positions inside add_subscriber (with start) and remove_subscriber (with stop).
CallPcs == {"add_read", "add_write", "add_test", "start",
            "rm_read", "rm_write", "rm_test",
            "stop_acq", "stop_chk", "stop_rel", "stop_clr"}

InCall(c) == con[c].pc \in CallPcs

\* No add_subscriber or remove_subscriber call is in progress.
Quiescent == \A c \in Cons : ~InCall(c)

\* Request threads whose subscribe has no matching unsubscribe yet.
Holders == {c \in Cons : con[c].adds > con[c].removes}

NetCount == Cardinality(Holders)

\* add_subscriber (with its start) has returned and remove_subscriber has not stored.
AddDone(c) ==
    /\ con[c].adds = 1
    /\ con[c].removes = 0
    /\ con[c].pc \notin {"add_test", "start"}

Finished(c) == con[c].pc = "idle" /\ con[c].kind # "none"

\* C1: at steady state (no subscribe/unsubscribe call in progress) with a net
\* subscription count > 0, a capture loop thread is running: nothing but a
\* further call could start one, so a state with none is permanently dormant.
C1_RunningIffSubscribed ==
    (Quiescent /\ NetCount > 0) => AliveLoops # {}

\* C2: no increment or decrement is lost: whenever no call is in progress,
\* subscribers equals the number of subscribes without a matching unsubscribe,
\* which is what every sequential ordering of the same calls produces.
C2_CountMatchesSequential ==
    Quiescent => subscribers = NetCount

\* C3: at most one execution of _update that has not returned exists.
C3_AtMostOneLoop ==
    Cardinality(AliveLoops) <= 1

\* C4: starting from count 0 and a dormant loop, once the first two
\* add_subscriber calls (of two request threads) have both returned, exactly
\* one capture loop thread has been started.
C4_ExactlyOneStarted ==
    (/\ reqs = 2
     /\ \E c1, c2 \in Cons : c1 # c2 /\ AddDone(c1) /\ AddDone(c2))
    => Len(loops) = 1

\* C5: a loop thread whose open failed does not take the exit path while the
\* subscription count is > 0.
C5_OpenFailureRetries ==
    \A l \in Loops :
        (loops[l].pc = "of_release" /\ cap # None /\ ~handles[cap].ok)
        => subscribers = 0

\* C6: a loop thread that has reached Streaming and is in a run of read
\* failures has not terminated, as long as the subscription count has been
\* > 0 ever since the thread was started.
C6_FailuresDoNotTerminate ==
    \A l \in Loops :
        (loops[l].streak /\ loops[l].pos) => LoopAlive(l)

\* C7: the subscription count is never negative, and no remove_subscriber
\* call, matched or not, ends in an error.
C7_RemoveNeverFails ==
    /\ subscribers >= 0
    /\ \A c \in Cons : con[c].res # "error"

\* The first half of C7 alone.
CountNonNegative == subscribers >= 0

\* C8: get_frame returns None exactly as long as no successful read has been
\* stored, a request thread holds bytes only of a stored frame, and a frame
\* that is present never becomes absent again.
C8_FramePresence ==
    /\ [](/\ (GetFrame = None) <=> (last_frame_time = 0)
          /\ \A c \in Cons : con[c].jpeg # None => last_frame_time > 0)
    /\ [][frame # None => frame' # None]_vars

\* C8's case: a frame was stored, the loop was stopped and has exited, and
\* the frame is still the one a request was answered with.
C8_Witness ==
    /\ frame # None
    /\ ~running /\ cap = None /\ Loops # {} /\ AliveLoops = {}
    /\ \E c \in Cons : con[c].res = "200"

\* C9: a stream never unsubscribes more often than it subscribed, subscribes
\* at most once, and a stream that has ended after subscribing has
\* unsubscribed exactly once, whichever way it ended.
C9_StreamUnsubscribesOnce ==
    \A c \in Cons :
        con[c].kind = "stream" =>
            /\ con[c].removes <= con[c].adds
            /\ con[c].adds <= 1
            /\ (con[c].pc = "idle" => con[c].removes = con[c].adds)
            /\ (con[c].exit \in {"close", "error"} => con[c].adds = 1)

\* C9's case: a stream that subscribed has ended through an exception at the
\* yield and has unsubscribed once.
C9_Witness ==
    \E c \in Cons :
        /\ Finished(c) /\ con[c].kind = "stream" /\ con[c].exit = "error"
        /\ con[c].adds = 1 /\ con[c].removes = 1

\* Every completed capture made one add_subscriber and one remove_subscriber.
CaptureBalanced ==
    \A c \in Cons :
        (Finished(c) /\ con[c].kind = "capture" /\ con[c].res \in {"200", "503"})
        => (con[c].adds = 1 /\ con[c].removes = 1)

\* C10: every completed capture made exactly one add_subscriber and one
\* remove_subscriber, and when all requests so far were captures that have
\* completed, the subscription count is what it was before them (0).
C10_CaptureLeavesCount ==
    /\ CaptureBalanced
    /\ (/\ \A c \in Cons : con[c].pc = "idle" /\ con[c].res \in {"none", "200", "503"}
        /\ reqs = Cardinality({c \in Cons : con[c].kind = "capture"}))
       => subscribers = 0

\* ------------------------------------------------ claims C11 to C20
\* The thread that holds the lock can take its next step.
HolderCanStep ==
    IF lock \in Cons
    THEN ENABLED ConsumerStep(lock)
    ELSE \E l \in Loops : LoopId(l) = lock /\ ENABLED LoopStep(l)

\* A capture in progress can take its next step, or waits for a lock whose
\* holder can: no capture is ever stuck.
CaptureNeverStuck ==
    \A c \in Cons :
        (con[c].kind = "capture" /\ con[c].pc # "idle")
        => (ENABLED ConsumerStep(c) \/ (lock # 0 /\ HolderCanStep))

\* C11: a capture request is never stuck, and one that has completed has
\* ended with an image (200) or with unavailable (503).
C11_CaptureCompletes ==
    /\ CaptureNeverStuck
    /\ \A c \in Cons :
          (Finished(c) /\ con[c].kind = "capture") => con[c].res \in {"200", "503"}

\* In a capture the buffer is read only after the grace wait, and the grace
\* wait starts only when add_subscriber has returned.
CaptureReadsAfterWait ==
    \A c \in Cons :
        /\ (con[c].pc # "get_jpeg" /\ con'[c].pc = "get_jpeg") => con[c].pc = "grace"
        /\ (con[c].pc # "grace" /\ con'[c].pc = "grace")
              => con[c].pc \in {"add_test", "start"}
        /\ (con'[c].kind = "capture" /\ con[c].pc # "rm_read" /\ con'[c].pc = "rm_read")
              => con[c].pc = "get_jpeg"

CaptureOrder == [][CaptureReadsAfterWait]_vars

\* C12: while no frame has ever been stored, a completed capture has answered
\* 503, and every capture reads the buffer only after its grace wait.
C12_UnavailableAfterWait ==
    /\ [](\A c \in Cons :
             (Finished(c) /\ con[c].kind = "capture" /\ last_frame_time = 0)
             => con[c].res = "503")
    /\ [][CaptureReadsAfterWait]_vars

\* C13: a stream that is subscribed and polling after a loop thread was
\* started, with no frame captured yet and no call in progress, has a capture
\* loop thread working for it: without one no frame can reach it unless
\* somebody subscribes again.
C13_DeliveryResumes ==
    \A c \in Cons :
        (/\ con[c].kind = "stream" /\ con[c].pc = "poll"
         /\ Loops # {}
         /\ frame = None
         /\ Quiescent)
        => AliveLoops # {}

\* What a stream's step may do: a poll either stays polling or reaches the
\* yield with bytes, keeping the subscription; the finally clause is entered
\* only from the yield, by a close or an exception.
StreamStepAllowed(c) ==
    /\ (con[c].pc = "poll")
          => /\ con'[c].pc \in {"poll", "yield"}
             /\ (con'[c].pc = "yield") <=> (con'[c].jpeg # None)
             /\ con'[c].adds = con[c].adds /\ con'[c].removes = con[c].removes
    /\ (con[c].kind = "stream" /\ con[c].pc # "rm_read" /\ con'[c].pc = "rm_read")
          => (con[c].pc = "yield" /\ con'[c].exit \in {"close", "error"})

\* C14: a poll that finds no frame or cannot encode it emits nothing, keeps
\* the subscription and polls again; the stream leaves its loop only when it
\* is closed, or an exception is thrown, at the yield.
C14_GapKeepsStream ==
    /\ [](\A c \in Cons :
             con[c].gap => (/\ con[c].pc = "poll" /\ con[c].jpeg = None
                            /\ con[c].adds = 1 /\ con[c].removes = 0))
    /\ [][\A c \in Cons : StreamStepAllowed(c)]_vars

\* C14's case: a stream whose last poll found nothing is still polling and
\* still subscribed.
C14_Witness ==
    \E c \in Cons :
        /\ con[c].kind = "stream" /\ con[c].pc = "poll" /\ con[c].gap
        /\ con[c].adds = 1 /\ con[c].removes = 0

\* Handles that were opened and have not been released.
OpenHandles == {h \in DOMAIN handles : Usable(h)}

\* C15: when no capture loop thread is alive, every handle that was opened
\* has been released.
C15_HandlesReleased ==
    AliveLoops = {} => OpenHandles = {}

\* C16: frame and last_frame_time change only in the step of a loop thread
\* that stores a frame it has read (lines 62-63).
C16_OnlyLoopWrites ==
    [][(frame' # frame \/ last_frame_time' # last_frame_time)
       => \E l \in Loops :
             /\ loops[l].pc = "store" /\ loops'[l].pc = "pace"
             /\ frame' = loops[l].fr /\ frame' # None]_vars

\* C16's case: a loop thread is leaving (Dormant is being entered) and the
\* last captured frame is still in the buffer.
C16_Witness ==
    /\ frame # None /\ last_frame_time > 0
    /\ \E l \in Loops : loops[l].pc = "exit_clr"

\* The loop's blocking steps: open, read, backoff sleep and reopen, pacing sleep.
BlockingPcs == {"open", "read", "backoff", "pace"}

\* C17: a loop thread holds the lock only while it stores a frame, never at
\* a blocking step.
C17_NoLockWhileBlocked ==
    \A l \in Loops :
        /\ loops[l].pc \in BlockingPcs => lock # LoopId(l)
        /\ lock = LoopId(l) => loops[l].pc = "store"

\* C17's case: a loop thread sleeps in its backoff or reads while a request
\* thread is inside stop() with the lock.
C17_Witness ==
    \E l \in Loops, c \in Cons :
        /\ loops[l].pc \in {"backoff", "read"}
        /\ lock = c /\ con[c].pc = "stop_chk"

\* C18: no loop thread fails on a missing handle.
C18_HandleNeverMissing ==
    \A l \in Loops : loops[l].pc # "crashed"

\* C19: whenever running is True a capture loop thread is alive.
C19_RunningMeansLoop ==
    running => AliveLoops # {}

\* Request threads between their add_subscriber and their remove_subscriber.
ActiveCons == {c \in Cons : con[c].pc \in {"grace", "get_jpeg", "poll", "yield"}}

InStop(c) == con[c].pc \in {"stop_acq", "stop_chk", "stop_rel", "stop_clr"}

\* C20: subscribers is at least the number of active consumers, and no
\* request thread is inside stop() while another consumer is active.
C20_CountCoversActive ==
    /\ subscribers >= Cardinality(ActiveCons)
    /\ \A c \in Cons : InStop(c) => ActiveCons \ {c} = {}

====
